---- MODULE Spec2Model ----
(***************************************************************************)
(* Model of telegram_stocksignals.                                         *)
(*                                                                         *)
(* The trade ledger (src/trade_tracker.py): the TradeTracker class with    *)
(* its in-memory ledger `trades`, the JSON file it is persisted to, and    *)
(* the operations add_trade, update_with_analyses, save and load.          *)
(*                                                                         *)
(* The signal engines (src/crypto_signal_bot.py, src/stock_signal_bot.py): *)
(* analyze_pair as a function of what it reads off the fetched series,     *)
(* find_support_resistance as a function of the bars, scan_all_pairs as a  *)
(* loop over the universe, and run_signals_only                            *)
(* (src/send_telegram_reports.py), which ties a scan to the ledger.        *)
(*                                                                         *)
(* The exchange side: get_klines of the crypto engine with its retries,    *)
(* calculate_rsi, bybit_signal_bot.main with its signal store and trader   *)
(* (src/bybit_signal_bot.py, src/bybit_signal_gui.py), and the run button  *)
(* of the scanner GUIs (src/crypto_signal_gui.py, src/stock_signal_gui.py).*)
(*                                                                         *)
(* Numbers.  Prices and levels are whole numbers.  pnl_pct, which the code *)
(* computes in floating point as (price / entry - 1) * 100, is kept as the *)
(* exact fraction <<numerator, denominator>> in lowest terms; floating     *)
(* point rounding is not modelled.  Timestamps, which the code receives as *)
(* strings, are the numbers 1..MaxTs.                                      *)
(*                                                                         *)
(* update_with_analyses is a loop over the list it is given.  The model    *)
(* runs it as UpdateBegin, one UpdateIter per element of the list, and     *)
(* UpdateReturn; while the call is in progress (pc = "update") no other    *)
(* operation of the tracker can run, as in the single-threaded program.    *)
(***************************************************************************)
EXTENDS Integers, Sequences, FiniteSets, TLC

\* ---------------------------------------------------------------- bounds
MaxTrades == 2
MaxPrice == 4
MaxAnalyses == 2
MaxTs == 2
MaxBars == 4
MaxGain == 9
MaxBatch == 2
MaxPlaced == 2
MaxScans == 2

\* ---------------------------------------------------------------- inputs
\* The (symbol, timeframe) keys the calls are made with.
Keys == {<<"BTCUSDT", "1d">>, <<"BTCUSDT", "4h">>, <<"ETHUSDT", "1d">>}

Prices == 1..MaxPrice

Timestamps == 1..MaxTs

\* entry / stop_loss / tp1 / tp2 of an analysis.  The first is the ordinary
\* shape stop_loss < entry < tp1 < tp2; in the second the stop lies above
\* tp1 and at tp2, so that one price can satisfy several of the checks.
Levels ==
    { [entry |-> 2, stop_loss |-> 1, tp1 |-> 3, tp2 |-> 4],
      [entry |-> 2, stop_loss |-> 3, tp1 |-> 2, tp2 |-> 3] }

\* The fields of an analysis dict that the tracker reads.
Analysis(k, p, l) ==
    [symbol |-> k[1], timeframe |-> k[2], price |-> p,
     entry |-> l.entry, stop_loss |-> l.stop_loss, tp1 |-> l.tp1, tp2 |-> l.tp2]

Analyses == { Analysis(k, p, l) : k \in Keys, p \in Prices, l \in Levels }

NoAnalysis ==
    [symbol |-> "", timeframe |-> "", price |-> 0,
     entry |-> 0, stop_loss |-> 0, tp1 |-> 0, tp2 |-> 0]

\* ------------------------------------------------------------ arithmetic
Abs(n) == IF n < 0 THEN -n ELSE n

RECURSIVE Gcd(_, _)
Gcd(a, b) == IF b = 0 THEN a ELSE Gcd(b, a % b)

\* (price / entry - 1) * 100 as a fraction in lowest terms; entry > 0.
PnlPct(price, entry) ==
    LET n == (price - entry) * 100
        g == Gcd(Abs(n), entry)
    IN  <<n \div g, entry \div g>>

ZeroPnl == <<0, 1>>

\* ----------------------------------------------------------------- state
VARIABLES
    trades,     \* TradeTracker.trades, the ledger
    file,       \* the file at TradeTracker.path
    pc,         \* "new" before the tracker is constructed; "idle"; "update"
                \* while update_with_analyses runs; "saved" after save();
                \* "loaded" once the next tracker is constructed; "raised"
                \* once a call has raised
    ts,         \* the timestamp argument of the call in progress or last made
    updates,    \* the list the update call builds and returns; <<>> outside
    iter,       \* loop iterations made by that update call
    changes,    \* status changes made by that update call
    last,       \* the last step: operation, analysis, trade touched
    shape,      \* the Python type of TradeTracker.trades: "list" or "dict"
    probe,      \* one call of analyze_pair: engine, series read, result
    bot,        \* the signal bot: engine, scan in progress, last_analyses
    run,        \* run_signals_only: phase, last_run_at, signals still to add
    sr,         \* one call of find_support_resistance: series, window, result
    ind,        \* one call of calculate_rsi: average gain and loss, result
    bybit,      \* bybit_signal_bot: store file, environment, main in progress
    life,       \* per trade of the ledger, the kinds of the messages it caused so far
    fetch,      \* get_klines: the call in progress, its requests and what it returned
    gui         \* scanner GUI: the run button, the scan thread, the queued _on_finish

vars == <<trades, file, pc, ts, updates, iter, changes, last, shape, probe,
          bot, run, sr,
          ind,
          bybit,
          life,
          fetch,
          gui>>

\* What the tracker's own operations leave alone
outside == <<shape, probe, sr, bot, run, ind, bybit, life, fetch, gui>>

\* The file at TradeTracker.path: whether it exists, what its text is (a
\* JSON array of objects, another JSON value, or no JSON at all), and the
\* text when it is an array.
Missing == [exists |-> FALSE, kind |-> "none", text |-> <<>>]

\* A variant of Written that writes an empty array.
WrittenEmpty(text) == [exists |-> TRUE, kind |-> "array", text |-> <<>>]

\* The file after write_text(json.dumps(self.trades)).
Written(text) == [exists |-> TRUE, kind |-> "array", text |-> text]

\* A file whose text json.loads rejects.
Unparseable == [exists |-> TRUE, kind |-> "unparseable", text |-> <<>>]

\* A file whose text is the JSON object {}.
EmptyObject == [exists |-> TRUE, kind |-> "object", text |-> <<>>]

ActiveStatus == {"open", "tp1"}

TerminalStatus == {"tp2", "stopped"}

Step(op, a, idx, from) == [op |-> op, a |-> a, idx |-> idx, from |-> from]

\* The fields of an analysis that a loop iteration of the update reads.
Observed(a) ==
    [NoAnalysis EXCEPT !.symbol = a.symbol, !.timeframe = a.timeframe,
                       !.price = a.price]

\* ------------------------------------------------------------ operations
\* A variant of FindTrade that takes only open trades for active.
FindTradeOpenOnly(ledger, symbol, timeframe) ==
    LET hits == { i \in 1..Len(ledger) :
                    /\ ledger[i].symbol = symbol
                    /\ ledger[i].timeframe = timeframe
                    /\ ledger[i].status = "open" }
    IN  IF hits = {} THEN 0 ELSE CHOOSE i \in hits : \A j \in hits : i <= j

\* A variant of FindTrade that takes a trade of any status.
FindTradeAnyStatus(ledger, symbol, timeframe) ==
    LET hits == { i \in 1..Len(ledger) :
                    /\ ledger[i].symbol = symbol
                    /\ ledger[i].timeframe = timeframe }
    IN  IF hits = {} THEN 0 ELSE CHOOSE i \in hits : \A j \in hits : i <= j

\* _find_trade: the first trade of the ledger with the key and an active
\* status; 0 stands for None.
FindTrade(ledger, symbol, timeframe) ==
    LET hits == { i \in 1..Len(ledger) :
                    /\ ledger[i].symbol = symbol
                    /\ ledger[i].timeframe = timeframe
                    /\ ledger[i].status \in ActiveStatus }
    IN  IF hits = {} THEN 0 ELSE CHOOSE i \in hits : \A j \in hits : i <= j

\* A variant of NewTrade that starts last_price at the entry.
NewTradeAtEntry(a, created_at) ==
    [symbol |-> a.symbol, timeframe |-> a.timeframe,
     entry |-> a.entry, stop_loss |-> a.stop_loss, tp1 |-> a.tp1, tp2 |-> a.tp2,
     status |-> "open", created_at |-> created_at, last_update |-> created_at,
     last_price |-> a.entry, pnl_pct |-> ZeroPnl]

\* The dict add_trade appends.
NewTrade(a, created_at) ==
    [symbol |-> a.symbol, timeframe |-> a.timeframe,
     entry |-> a.entry, stop_loss |-> a.stop_loss, tp1 |-> a.tp1, tp2 |-> a.tp2,
     status |-> "open", created_at |-> created_at, last_update |-> created_at,
     last_price |-> a.price, pnl_pct |-> ZeroPnl]

\* A variant of AddTrade without the _find_trade test.
AddTradeAlways(a, created_at) ==
    /\ pc = "idle"
    /\ created_at >= ts
    /\ Len(trades) < MaxTrades
    /\ trades' = Append(trades, NewTrade(a, created_at))
    /\ last' = Step("add_trade", a, 0, "none")
    /\ ts' = created_at
    /\ updates' = <<>>
    /\ iter' = 0
    /\ changes' = 0
    /\ UNCHANGED <<file, pc>>

\* The trades of the ledger with the key, whatever their status.
OfKey(ledger, symbol, timeframe) ==
    { i \in 1..Len(ledger) :
        ledger[i].symbol = symbol /\ ledger[i].timeframe = timeframe }

\* A variant of AddTrade that, for a key with no active trade, writes the
\* new trade over the key's earlier trade, if it has one.
AddTradeReopen(a, created_at) ==
    /\ pc = "idle"
    /\ created_at >= ts
    /\ LET i == FindTrade(trades, a.symbol, a.timeframe)
           old == OfKey(trades, a.symbol, a.timeframe)
       IN  /\ i # 0 \/ old # {} \/ Len(trades) < MaxTrades
           /\ trades' = IF i # 0 THEN trades
                         ELSE IF old # {}
                         THEN [trades EXCEPT ![CHOOSE j \in old : TRUE] = NewTrade(a, created_at)]
                         ELSE Append(trades, NewTrade(a, created_at))
           /\ last' = Step("add_trade", a, i, "none")
    /\ ts' = created_at
    /\ updates' = <<>>
    /\ iter' = 0
    /\ changes' = 0
    /\ UNCHANGED <<file, pc>>

\* A variant of AddTrade that puts the new trade at the head of the ledger.
AddTradePrepend(a, created_at) ==
    /\ pc = "idle"
    /\ created_at >= ts
    /\ LET i == FindTrade(trades, a.symbol, a.timeframe)
       IN  /\ i # 0 \/ Len(trades) < MaxTrades
           /\ trades' = IF i # 0 THEN trades ELSE <<NewTrade(a, created_at)>> \o trades
           /\ last' = Step("add_trade", a, i, "none")
    /\ ts' = created_at
    /\ updates' = <<>>
    /\ iter' = 0
    /\ changes' = 0
    /\ UNCHANGED <<file, pc>>

\* add_trade(analysis, created_at) on a ledger that is a list; the clock
\* that stamps the calls does not run backwards.
AddTrade(a, created_at) ==
    /\ pc = "idle"
    /\ shape = "list"
    /\ created_at >= ts
    /\ LET i == FindTrade(trades, a.symbol, a.timeframe)
       IN  /\ i # 0 \/ Len(trades) < MaxTrades
           /\ trades' = IF i # 0 THEN trades ELSE Append(trades, NewTrade(a, created_at))
           /\ last' = Step("add_trade", a, i, "none")
    /\ ts' = created_at
    /\ updates' = <<>>
    /\ iter' = 0
    /\ changes' = 0
    /\ UNCHANGED <<file, pc>>

\* The transition messages: the kind, the symbol, the level quoted and the
\* percentage of that level over the entry.
Message(kind, trade, level) ==
    [kind |-> kind, symbol |-> trade.symbol, level |-> level,
     pnl |-> PnlPct(level, trade.entry)]

\* A variant of Checks that tests the targets before the stop.
ChecksTargetsFirst(trade, status, price) ==
    IF price >= trade.tp2
    THEN [new_status |-> "tp2", msg |-> <<Message("TP2", trade, trade.tp2)>>]
    ELSE IF price >= trade.tp1 /\ status = "open"
    THEN [new_status |-> "tp1", msg |-> <<Message("TP1", trade, trade.tp1)>>]
    ELSE IF price <= trade.stop_loss
    THEN [new_status |-> "stopped", msg |-> <<Message("STOP", trade, trade.stop_loss)>>]
    ELSE [new_status |-> status, msg |-> <<>>]

\* A variant of Checks that tests tp1 before tp2.
ChecksTp1First(trade, status, price) ==
    IF price <= trade.stop_loss
    THEN [new_status |-> "stopped", msg |-> <<Message("STOP", trade, trade.stop_loss)>>]
    ELSE IF price >= trade.tp1 /\ status = "open"
    THEN [new_status |-> "tp1", msg |-> <<Message("TP1", trade, trade.tp1)>>]
    ELSE IF price >= trade.tp2
    THEN [new_status |-> "tp2", msg |-> <<Message("TP2", trade, trade.tp2)>>]
    ELSE [new_status |-> status, msg |-> <<>>]

\* The if / elif chain of one loop iteration: the status and the message it
\* gives a trade of status `status` at `price`; the stop first, then tp2,
\* then tp1 from open only.  <<>> stands for msg = None.
Checks(trade, status, price) ==
    IF price <= trade.stop_loss
    THEN [new_status |-> "stopped", msg |-> <<Message("STOP", trade, trade.stop_loss)>>]
    ELSE IF price >= trade.tp2
    THEN [new_status |-> "tp2", msg |-> <<Message("TP2", trade, trade.tp2)>>]
    ELSE IF price >= trade.tp1 /\ status = "open"
    THEN [new_status |-> "tp1", msg |-> <<Message("TP1", trade, trade.tp1)>>]
    ELSE [new_status |-> status, msg |-> <<>>]

\* A variant of Priced that leaves pnl_pct alone.
PricedKeepsPnl(trade, price) ==
    [trade EXCEPT !.last_price = price]

\* The trade after the price bookkeeping of an iteration.
Priced(trade, price) ==
    [trade EXCEPT !.last_price = price, !.pnl_pct = PnlPct(price, trade.entry)]

\* A variant of Updated that leaves last_update alone.
UpdatedKeepsLastUpdate(trade, price, now) ==
    LET status == trade.status
        new_status == Checks(trade, status, price).new_status
    IN  IF status \in TerminalStatus THEN Priced(trade, price)
        ELSE [Priced(trade, price) EXCEPT !.status = new_status]

\* A variant of Updated that moves the stop to the entry at tp1.
UpdatedMovesStop(trade, price, now) ==
    LET status == trade.status
        new_status == Checks(trade, status, price).new_status
    IN  IF status \in TerminalStatus THEN Priced(trade, price)
        ELSE IF new_status # status
             THEN [Priced(trade, price) EXCEPT
                      !.status = new_status, !.last_update = now,
                      !.stop_loss = IF new_status = "tp1" THEN trade.entry ELSE @]
             ELSE Priced(trade, price)

\* A variant of Updated that leaves the status alone.
UpdatedKeepsStatus(trade, price, now) ==
    LET status == trade.status
        new_status == Checks(trade, status, price).new_status
    IN  IF status \in TerminalStatus THEN Priced(trade, price)
        ELSE IF new_status # status
             THEN [Priced(trade, price) EXCEPT !.last_update = now]
             ELSE Priced(trade, price)

\* The trade after one loop iteration that found it.
Updated(trade, price, now) ==
    LET status == trade.status
        new_status == Checks(trade, status, price).new_status
    IN  IF status \in TerminalStatus THEN Priced(trade, price)
        ELSE IF new_status # status
             THEN [Priced(trade, price) EXCEPT !.status = new_status, !.last_update = now]
             ELSE Priced(trade, price)

\* The messages one loop iteration appends for the trade it found.
Emitted(trade, price) ==
    LET status == trade.status
        checks == Checks(trade, status, price)
    IN  IF status \in TerminalStatus THEN <<>>
        ELSE IF checks.new_status # status THEN checks.msg
        ELSE <<>>

\* update_with_analyses(analyses, ts): entry, updates = []; the clock that
\* stamps the calls does not run backwards.
UpdateBegin(now) ==
    /\ pc = "idle"
    /\ now >= ts
    /\ pc' = "update"
    /\ ts' = now
    /\ updates' = <<>>
    /\ iter' = 0
    /\ changes' = 0
    /\ last' = Step("update", NoAnalysis, 0, "none")
    /\ UNCHANGED <<trades, file>>

\* update_with_analyses: one iteration of the loop, for the analysis a
UpdateIter(a) ==
    /\ pc = "update"
    /\ iter < MaxAnalyses
    /\ iter' = iter + 1
    /\ LET i == FindTrade(trades, a.symbol, a.timeframe)
       IN  IF i = 0
           THEN /\ last' = Step("iter", Observed(a), 0, "none")
                /\ UNCHANGED <<trades, updates, changes>>
           ELSE /\ trades' = [trades EXCEPT ![i] = Updated(trades[i], a.price, ts)]
                /\ updates' = updates \o Emitted(trades[i], a.price)
                /\ changes' = IF trades'[i].status # trades[i].status
                              THEN changes + 1 ELSE changes
                /\ last' = Step("iter", Observed(a), i, trades[i].status)
    /\ UNCHANGED <<file, pc, ts>>

\* update_with_analyses: return updates
UpdateReturn ==
    /\ pc = "update"
    /\ pc' = "idle"
    /\ last' = Step("return", NoAnalysis, 0, "none")
    /\ UNCHANGED <<trades, file, ts, updates, iter, changes>>

\* ------------------------------------------------------------ persistence
\* The JSON text of the ledger: an array with one object per trade, each
\* object the list of its members (name, literal) in insertion order.  A
\* literal is a string, an integer in decimal digits with a sign, or a
\* float, here the decimal digits of the two parts of the fraction.
FieldNames ==
    <<"symbol", "timeframe", "entry", "stop_loss", "tp1", "tp2", "status",
      "created_at", "last_update", "last_price", "pnl_pct">>

RECURSIVE Digits(_)
Digits(n) == IF n < 10 THEN <<n>> ELSE Append(Digits(n \div 10), n % 10)

RECURSIVE DigitsValue(_)
DigitsValue(d) ==
    IF Len(d) = 0 THEN 0
    ELSE 10 * DigitsValue(SubSeq(d, 1, Len(d) - 1)) + d[Len(d)]

\* A variant of IntText that loses the sign.
IntTextUnsigned(n) == [neg |-> FALSE, digits |-> Digits(Abs(n))]

\* The decimal text of an integer.
IntText(n) == [neg |-> n < 0, digits |-> Digits(Abs(n))]

IntValue(t) == IF t.neg THEN 0 - DigitsValue(t.digits) ELSE DigitsValue(t.digits)

Literal(name, value) ==
    IF name \in {"symbol", "timeframe", "status", "created_at", "last_update"}
    THEN [type |-> "string", text |-> value]
    ELSE IF name = "pnl_pct"
    THEN [type |-> "float", num |-> IntText(value[1]), den |-> IntText(value[2])]
    ELSE [type |-> "int", text |-> IntText(value)]

LiteralValue(l) ==
    IF l.type = "string" THEN l.text
    ELSE IF l.type = "float" THEN <<IntValue(l.num), IntValue(l.den)>>
    ELSE IntValue(l.text)

\* json.dumps(self.trades)
Dumps(ledger) ==
    [i \in 1..Len(ledger) |->
        [k \in 1..Len(FieldNames) |->
            [name |-> FieldNames[k], literal |-> Literal(FieldNames[k], ledger[i][FieldNames[k]])]]]

\* json.loads(text): each object becomes a dict of its members
Loads(text) ==
    [i \in 1..Len(text) |->
        LET members == text[i]
            names == { members[k].name : k \in 1..Len(members) }
            pos(n) == CHOOSE k \in 1..Len(members) :
                        /\ members[k].name = n
                        /\ \A j \in 1..Len(members) : members[j].name = n => j <= k
        IN  [n \in names |-> LiteralValue(members[pos(n)].literal)]]

\* save(): the whole file is overwritten
Save ==
    /\ pc = "idle"
    /\ file' = Written(Dumps(trades))
    /\ pc' = "saved"
    /\ last' = Step("save", NoAnalysis, 0, "none")
    /\ UNCHANGED <<trades, ts, updates, iter, changes>>

\* The type of self.trades after load(): whatever json.loads returned.
LoadedShape(f) ==
    IF f.exists /\ f.kind = "object" THEN "dict" ELSE "list"

\* TradeTracker(path): __init__ and load() of a tracker on the path, the
\* first one or the next one after a save().  self.trades = [] stays when
\* the file is missing or json.loads raises; otherwise self.trades is what
\* json.loads returns, a list or not.  The dict {} has no items.
Load ==
    /\ pc \in {"new", "saved"}
    /\ trades' = IF file.exists /\ file.kind = "array" THEN Loads(file.text) ELSE <<>>
    /\ shape' = LoadedShape(file)
    /\ pc' = IF pc = "new" THEN "idle" ELSE "loaded"
    /\ last' = Step("load", NoAnalysis, 0, "none")
    /\ UNCHANGED <<file, ts, updates, iter, changes>>

\* add_trade(analysis, created_at) on a ledger that is the dict {}:
\* _find_trade iterates over no keys and returns None, and
\* self.trades.append raises AttributeError.
AddTradeOnDict(a, created_at) ==
    /\ pc = "idle"
    /\ shape = "dict"
    /\ created_at >= ts
    /\ pc' = "raised"
    /\ ts' = created_at
    /\ last' = Step("add_trade", a, 0, "AttributeError")
    /\ UNCHANGED <<trades, file, updates, iter, changes>>

\* --------------------------------------------------------------- analysis
\* analyze_pair of the two engines (src/crypto_signal_bot.py and
\* src/stock_signal_bot.py).  Its input is what it reads off the fetched bar
\* series after the indicator columns are computed: the number of bars, the
\* last bar, the indicator values on the last bar, on the bar before it and
\* four bars back, and the levels find_support_resistance returns.  Prices
\* are whole numbers of hundredths, chosen so that the factors 0.98, 0.99,
\* 1.005 and 1.5 give whole numbers; ratio_tp1 is the exact fraction
\* <<reward_tp1, risk>>.

\* The value of an indicator that is not a number: fewer bars than its
\* rolling window, or a quotient 0/0.  ATR, ADX and RSI are never negative.
NaN == -1

\* Comparisons of floats: every comparison with NaN is false.
Gt(x, y) == x # NaN /\ y # NaN /\ x > y

Ge(x, y) == x # NaN /\ y # NaN /\ x >= y

Lt(x, y) == x # NaN /\ y # NaN /\ x < y

Min(x, y) == IF y < x THEN y ELSE x

\* The rolling window of calculate_atr, calculate_adx and calculate_rsi
IndicatorPeriod == 14

\* The least number of bars the stock engine analyses
MinBars == 30

\* The lengths of the fetched series: empty, too short for iloc[-2], too
\* short for iloc[-5], shorter than the indicator window, and around MinBars.
Bars == {0, 1, 4, 5, MinBars - 1, MinBars}

Engines == {"crypto", "stock"}

\* What analyze_pair reads off a series of n bars.
MarketsOf(n) ==
    [ nbars : {n},
      Close : {200}, Low : {100, 200},
      Volume : {60, 100, 140}, AvgVolume : {100},
      EMA20 : {250, 400}, EMA50 : {300}, EMA200 : {150, 250},
      MACD : {-1, 1}, Signal : {0}, PrevMACD : {-1, 1}, PrevSignal : {0},
      RSI : IF n < IndicatorPeriod THEN {NaN} ELSE {50, 90},
      RSI5 : IF n < IndicatorPeriod THEN {NaN} ELSE {40, 95},
      ATR : IF n < IndicatorPeriod THEN {NaN} ELSE {0, 20, 200},
      ADX : IF n < IndicatorPeriod THEN {NaN} ELSE {NaN, 10, 20, 30},
      support : {100, 200, 300}, resistance : {100, 300, 500} ]

Markets == UNION { MarketsOf(n) : n \in Bars }

\* (current_volume / avg_volume - 1) * 100, avg_volume not zero
VolumeIncrease(m) == (m.Volume * 100) \div m.AvgVolume - 100

\* A variant of RiskReward without the fallback of the stop to entry * 0.98.
RiskRewardNoFallback(entry_price, atr, support, resistance) ==
    LET by_support  == (99 * support) \div 100
        stop_by_atr == IF Gt(atr, 0) THEN entry_price - (3 * atr) \div 2 ELSE by_support
        stop_loss   == Min(stop_by_atr, by_support)
        tp1         == IF Gt(atr, 0) THEN entry_price + 2 * atr ELSE (98 * resistance) \div 100
        tp2         == IF Gt(atr, 0) THEN entry_price + 3 * atr ELSE resistance
        risk        == entry_price - stop_loss
        reward_tp1  == tp1 - entry_price
    IN  [stop_loss |-> stop_loss, tp1 |-> tp1, tp2 |-> tp2, risk |-> risk,
         reward_tp1 |-> reward_tp1,
         ratio_tp1 |-> IF risk > 0 THEN <<reward_tp1, risk>> ELSE <<0, 1>>]

\* The risk/reward step: stop_loss, tp1, tp2, risk, reward_tp1, ratio_tp1
RiskReward(entry_price, atr, support, resistance) ==
    LET by_support  == (99 * support) \div 100
        stop_by_atr == IF Gt(atr, 0) THEN entry_price - (3 * atr) \div 2 ELSE by_support
        stop_min    == Min(stop_by_atr, by_support)
        stop_loss   == IF stop_min <= 0 \/ stop_min >= entry_price
                       THEN (98 * entry_price) \div 100 ELSE stop_min
        tp1         == IF Gt(atr, 0) THEN entry_price + 2 * atr ELSE (98 * resistance) \div 100
        tp2         == IF Gt(atr, 0) THEN entry_price + 3 * atr ELSE resistance
        risk        == entry_price - stop_loss
        reward_tp1  == tp1 - entry_price
    IN  [stop_loss |-> stop_loss, tp1 |-> tp1, tp2 |-> tp2, risk |-> risk,
         reward_tp1 |-> reward_tp1,
         ratio_tp1 |-> IF risk > 0 THEN <<reward_tp1, risk>> ELSE <<0, 1>>]

\* ratio >= 1.0 for a ratio <<numerator, denominator>>, denominator > 0
AtLeastOne(ratio) == ratio[1] >= ratio[2]

\* The conditions of the technical analysis on the reading m
Conditions(m) ==
    LET macd_positive == m.MACD > m.Signal
    IN  [in_uptrend      |-> m.Close > m.EMA200,
         ema_order       |-> m.EMA20 > m.EMA50 /\ m.EMA50 > m.EMA200,
         macd_positive   |-> macd_positive,
         macd_crossover  |-> m.PrevMACD < m.PrevSignal /\ macd_positive,
         rsi_healthy     |-> Lt(30, m.RSI) /\ Lt(m.RSI, 80),
         rsi_gaining     |-> Gt(m.RSI, m.RSI5),
         testing_support |-> m.Low * 1000 <= m.support * 1005 /\ m.Close > m.support]

Weight(cond, points) == IF cond THEN points ELSE 0

\* The score as the code adds it up, one if-statement after the other
ScoreSum(c, volume_increase, adx, ratio_tp1) ==
    Weight(c.in_uptrend, 20) + Weight(c.ema_order, 15)
    + Weight(c.macd_positive, 15) + Weight(c.macd_crossover, 10)
    + Weight(c.rsi_healthy, 10) + Weight(c.rsi_gaining, 10)
    + Weight(c.testing_support, 10)
    + Weight(volume_increase > 30, 5) - Weight(volume_increase < -30, 5)
    + (IF Ge(adx, 25) THEN 10 ELSE IF Lt(adx, 15) THEN -5 ELSE 0)
    + Weight(AtLeastOne(ratio_tp1), 5)

\* A variant of ConfidenceScore that caps the score at 100.
ConfidenceCapped(c, volume_increase, adx, ratio_tp1) ==
    Min(ScoreSum(c, volume_increase, adx, ratio_tp1), 100)

\* confidence_score
ConfidenceScore(c, volume_increase, adx, ratio_tp1) ==
    ScoreSum(c, volume_increase, adx, ratio_tp1)

\* A variant of SignalStrength with the alert threshold for FORTE.
SignalStrengthAtAlert(confidence_score) ==
    IF confidence_score >= 70 THEN "FORTE"
    ELSE IF confidence_score >= 60 THEN "MODERADO" ELSE "FRACO"

\* signal_strength
SignalStrength(confidence_score) ==
    IF confidence_score >= 75 THEN "FORTE"
    ELSE IF confidence_score >= 60 THEN "MODERADO" ELSE "FRACO"

\* A variant of ShouldAlert that leaves the trend out.
ShouldAlertAnyTrend(confidence_score, ratio_tp1, in_uptrend) ==
    confidence_score >= 70 /\ AtLeastOne(ratio_tp1)

\* should_alert
ShouldAlert(confidence_score, ratio_tp1, in_uptrend) ==
    confidence_score >= 70 /\ AtLeastOne(ratio_tp1) /\ in_uptrend

\* The dict analyze_pair returns for the reading m, with the keys that are
\* read again by the scan, the tracker or the reports.
AnalysisOf(symbol, timeframe, m) ==
    LET c     == Conditions(m)
        rr    == RiskReward(m.Close, m.ATR, m.support, m.resistance)
        vol   == VolumeIncrease(m)
        score == ConfidenceScore(c, vol, m.ADX, rr.ratio_tp1)
    IN  [symbol |-> symbol, timeframe |-> timeframe, price |-> m.Close,
         rsi |-> m.RSI, support |-> m.support, resistance |-> m.resistance,
         volume_increase |-> vol, atr |-> m.ATR, adx |-> m.ADX,
         in_uptrend |-> c.in_uptrend, ema_order |-> c.ema_order,
         macd_positive |-> c.macd_positive, macd_crossover |-> c.macd_crossover,
         rsi_gaining |-> c.rsi_gaining, testing_support |-> c.testing_support,
         entry |-> m.Close, stop_loss |-> rr.stop_loss, tp1 |-> rr.tp1,
         tp2 |-> rr.tp2, risk |-> rr.risk, reward_tp1 |-> rr.reward_tp1,
         ratio_tp1 |-> rr.ratio_tp1,
         confidence |-> score, signal_strength |-> SignalStrength(score),
         should_alert |-> ShouldAlert(score, rr.ratio_tp1, c.in_uptrend)]

\* What a call of analyze_pair comes to: None, an exception, or a dict.
ReturnsNone == [outcome |-> "none", error |-> "", analysis |-> NoAnalysis]

Raises(error) == [outcome |-> "raised", error |-> error, analysis |-> NoAnalysis]

Returns(a) == [outcome |-> "analysis", error |-> "", analysis |-> a]

NotCalled == [outcome |-> "pending", error |-> "", analysis |-> NoAnalysis]

\* analyze_pair(symbol) of the engine on a fetched series that reads m.
\* Both engines return None on an empty series, the stock engine also on
\* fewer than MinBars bars.  The crypto engine goes on with any series that
\* is not empty: df.iloc[-2] raises IndexError on one bar, and
\* df["RSI"].iloc[-5] raises IndexError on fewer than five.
AnalyzePair(engine, symbol, timeframe, m) ==
    IF m.nbars = 0 THEN ReturnsNone
    ELSE IF engine = "stock" /\ m.nbars < MinBars THEN ReturnsNone
    ELSE IF m.nbars < 2 THEN Raises("IndexError")
    ELSE IF m.nbars < 5 THEN Raises("IndexError")
    ELSE Returns(AnalysisOf(symbol, timeframe, m))

\* One call of analyze_pair on a fetched series
Analyze ==
    /\ probe.result = NotCalled
    /\ probe' = [probe EXCEPT !.result =
                    AnalyzePair(probe.engine, "BTCUSDT", "1d", probe.market)]
    /\ UNCHANGED <<trades, file, pc, ts, updates, iter, changes, last, shape,
                   bot, run, sr, ind, bybit, life, fetch, gui>>

NoMarket == [nbars |-> 0]

NoProbe == [engine |-> "", market |-> NoMarket, result |-> NotCalled]

\* ------------------------------------------------------------ scan and run
\* scan_all_pairs of an engine and run_signals_only
\* (src/send_telegram_reports.py), which constructs the tracker on the
\* engine's ledger file, scans, updates the ledger with the analyses of the
\* scan, adds a trade for every analysis that alerts, and saves.

\* The instruments of the engine's universe in scan order, and bot.interval
Universe == <<"BTCUSDT", "ETHUSDT">>

Interval == "1d"

\* What the scans read: series that are empty, of one bar, shorter than the
\* indicator window, and of MinBars bars, with the close below, at and
\* above the levels of a trade opened at 200.
ScanMarketsOf(n) ==
    [ nbars : {n},
      Close : {100, 200, 300}, Low : {200},
      Volume : {140}, AvgVolume : {100},
      EMA20 : {400}, EMA50 : {300}, EMA200 : {50, 250},
      MACD : {1}, Signal : {0}, PrevMACD : {-1}, PrevSignal : {0},
      RSI : IF n < IndicatorPeriod THEN {NaN} ELSE {50},
      RSI5 : IF n < IndicatorPeriod THEN {NaN} ELSE {40},
      ATR : IF n < IndicatorPeriod THEN {NaN} ELSE {0, 20},
      ADX : IF n < IndicatorPeriod THEN {NaN} ELSE {30},
      support : {200}, resistance : {300} ]

ScanMarkets == UNION { ScanMarketsOf(n) : n \in {0, 1, 5, MinBars} }

\* A bot after construction: nothing scanned, last_analyses empty.
BotNew(engine) ==
    [engine |-> engine, state |-> "idle", pos |-> 0, analyses |-> <<>>,
     signals |-> <<>>, last_analyses |-> <<>>, seen |-> <<>>]

\* A variant of Scanned that takes every analysis scoring 70 for a signal.
ScannedAlertByScore(b, r) ==
    IF r.outcome = "raised"
    THEN [b EXCEPT !.state = "raised", !.seen = Append(@, r)]
    ELSE IF r.outcome = "none"
    THEN [b EXCEPT !.pos = @ + 1, !.seen = Append(@, r)]
    ELSE [b EXCEPT !.pos = @ + 1, !.seen = Append(@, r),
                   !.analyses = Append(@, r.analysis),
                   !.signals = IF r.analysis.confidence >= 70
                               THEN Append(@, r.analysis) ELSE @]

\* The bot after analyze_pair came to r for the instrument at hand: an
\* exception leaves the loop and scan_all_pairs; None is skipped; a dict is
\* appended to analyses and, if it alerts, to signals.  seen records what
\* analyze_pair came to for each instrument.
Scanned(b, r) ==
    IF r.outcome = "raised"
    THEN [b EXCEPT !.state = "raised", !.seen = Append(@, r)]
    ELSE IF r.outcome = "none"
    THEN [b EXCEPT !.pos = @ + 1, !.seen = Append(@, r)]
    ELSE [b EXCEPT !.pos = @ + 1, !.seen = Append(@, r),
                   !.analyses = Append(@, r.analysis),
                   !.signals = IF r.analysis.should_alert
                               THEN Append(@, r.analysis) ELSE @]

\* The fields of an analysis dict that the tracker reads
Signal(a) ==
    [symbol |-> a.symbol, timeframe |-> a.timeframe, price |-> a.price,
     entry |-> a.entry, stop_loss |-> a.stop_loss, tp1 |-> a.tp1, tp2 |-> a.tp2]

Alerts(a) == a.should_alert

\* A variant of NewSignals that takes every analysis.
NewSignalsAll(analyses) == analyses

\* new_signals = [a for a in bot.last_analyses if a.get("should_alert")]
NewSignals(analyses) == SelectSeq(analyses, Alerts)

\* No run in progress.  Besides the phase, the time and the signals still to
\* be added, a run records the ledger file as it found it and the number of
\* times it saved.
NoRun == [phase |-> "none", now |-> 0, queue |-> <<>>, file0 |-> Missing,
          saves |-> 0]

\* run_signals_only: TradeTracker(tracker_path) and bot.last_run_at = now.
\* A run takes the time of its fetches, so that no two runs on the same
\* ledger file start in the same second.
RunBegin(now) ==
    /\ run.phase = "start"
    /\ now > ts
    /\ Load
    /\ run' = [phase |-> "scan", now |-> now, queue |-> <<>>, file0 |-> file,
               saves |-> 0]
    /\ UNCHANGED <<probe, sr, bot, ind, bybit, life, fetch, gui>>

\* scan_all_pairs: signals = [], analyses = []
ScanBegin ==
    /\ run.phase = "scan"
    /\ bot.state = "idle"
    /\ bot' = [bot EXCEPT !.state = "scanning", !.pos = 0, !.analyses = <<>>,
                          !.signals = <<>>, !.seen = <<>>]
    /\ UNCHANGED <<trades, file, pc, ts, updates, iter, changes, last, shape,
                   probe, sr, run, ind, bybit, life, fetch, gui>>

\* scan_all_pairs: one iteration of the loop, on the series fetched for the
\* instrument at hand
ScanStep(m) ==
    /\ bot.state = "scanning"
    /\ bot.pos < Len(Universe)
    /\ bot' = Scanned(bot, AnalyzePair(bot.engine, Universe[bot.pos + 1], Interval, m))
    /\ run' = IF bot'.state = "raised" THEN [run EXCEPT !.phase = "raised"] ELSE run
    /\ UNCHANGED <<trades, file, pc, ts, updates, iter, changes, last, shape, probe, sr, ind, bybit, life, fetch, gui>>

\* scan_all_pairs: self.last_analyses = analyses; return signals
ScanReturn ==
    /\ bot.state = "scanning"
    /\ bot.pos = Len(Universe)
    /\ bot' = [bot EXCEPT !.state = "returned", !.last_analyses = bot.analyses]
    /\ run' = [run EXCEPT !.phase = "update"]
    /\ UNCHANGED <<trades, file, pc, ts, updates, iter, changes, last, shape, probe, sr, ind, bybit, life, fetch, gui>>

\* run_signals_only: tracker.update_with_analyses(bot.last_analyses,
\* bot.last_run_at), entered, iterated and returned
RunUpdateBegin ==
    /\ run.phase = "update"
    /\ UpdateBegin(run.now)
    /\ run' = [run EXCEPT !.phase = "updating"]
    /\ UNCHANGED <<shape, probe, sr, bot, ind, bybit, life, fetch, gui>>

RunUpdateIter ==
    /\ run.phase = "updating"
    /\ iter < Len(bot.last_analyses)
    /\ UpdateIter(Signal(bot.last_analyses[iter + 1]))
    /\ UNCHANGED <<shape, probe, sr, bot, run, ind, bybit, life, fetch, gui>>

RunUpdateReturn ==
    /\ run.phase = "updating"
    /\ iter = Len(bot.last_analyses)
    /\ UpdateReturn
    /\ run' = [run EXCEPT !.phase = "add", !.queue = NewSignals(bot.last_analyses)]
    /\ UNCHANGED <<shape, probe, sr, bot, ind, bybit, life, fetch, gui>>

\* run_signals_only: tracker.add_trade(sig, bot.last_run_at) for the next of
\* new_signals
RunAddTrade ==
    /\ run.phase = "add"
    /\ run.queue # <<>>
    /\ AddTrade(Signal(Head(run.queue)), run.now)
    /\ run' = [run EXCEPT !.queue = Tail(@)]
    /\ UNCHANGED <<shape, probe, sr, bot, ind, bybit, life, fetch, gui>>

\* run_signals_only: tracker.save()
RunSave ==
    /\ run.phase = "add"
    /\ run.queue = <<>>
    /\ Save
    /\ run' = [run EXCEPT !.phase = "done", !.saves = @ + 1]
    /\ UNCHANGED <<shape, probe, sr, bot, ind, bybit, life, fetch, gui>>

\* The process ends; the next one starts with a new bot and no tracker.
RunExit ==
    /\ run.phase = "done"
    /\ pc = "saved"
    /\ pc' = "new"
    /\ trades' = <<>>
    /\ updates' = <<>>
    /\ iter' = 0
    /\ changes' = 0
    /\ last' = Step("init", NoAnalysis, 0, "none")
    /\ bot' = BotNew(bot.engine)
    /\ run' = [NoRun EXCEPT !.phase = "start"]
    /\ UNCHANGED <<file, ts, shape, probe, sr, ind, bybit, life, fetch, gui>>

\* ------------------------------------------------- support and resistance
\* find_support_resistance(df, window) of both engines, on a series of bars
\* given by their Low and High.

\* The bars of a series: Low and High, Low not above High
BarSet == { b \in [Low : Prices, High : Prices] : b.Low <= b.High }

\* The series find_support_resistance is called with, of 1 to MaxBars bars
SeriesSet == UNION { [1..n -> BarSet] : n \in 1..MaxBars }

\* The windows it is called with
Windows == {MaxBars - 1, MaxBars}

\* df.tail(window)
TailOf(df, window) ==
    IF Len(df) <= window THEN df ELSE SubSeq(df, Len(df) - window + 1, Len(df))

MaxOf(S) == CHOOSE x \in S : \A y \in S : y <= x

MinOf(S) == CHOOSE x \in S : \A y \in S : x <= y

LowsOf(df) == { df[i].Low : i \in 1..Len(df) }

HighsOf(df) == { df[i].High : i \in 1..Len(df) }

\* supports: the lows of the interior bars of the window that lie strictly
\* below the lows of both neighbours
PivotLows(recent) ==
    { recent[i].Low : i \in { j \in 2..Len(recent) - 1 :
                                /\ recent[j].Low < recent[j - 1].Low
                                /\ recent[j].Low < recent[j + 1].Low } }

\* resistances: the highs of the interior bars of the window that lie
\* strictly above the highs of both neighbours
PivotHighs(recent) ==
    { recent[i].High : i \in { j \in 2..Len(recent) - 1 :
                                 /\ recent[j].High > recent[j - 1].High
                                 /\ recent[j].High > recent[j + 1].High } }

\* find_support_resistance: (nearest_support, nearest_resistance); without
\* a pivot the minimum low and the maximum high of df, the whole series
FindSupportResistance(df, window) ==
    LET recent      == TailOf(df, window)
        supports    == PivotLows(recent)
        resistances == PivotHighs(recent)
    IN  [support    |-> IF supports # {} THEN MaxOf(supports) ELSE MinOf(LowsOf(df)),
         resistance |-> IF resistances # {} THEN MinOf(resistances) ELSE MaxOf(HighsOf(df))]

NoLevels == [support |-> 0, resistance |-> 0]

NoPivot == [df |-> <<>>, window |-> 0, result |-> NoLevels]

\* One call of find_support_resistance
FindLevels ==
    /\ sr.result = NoLevels
    /\ sr' = [sr EXCEPT !.result = FindSupportResistance(sr.df, sr.window)]
    /\ UNCHANGED <<trades, file, pc, ts, updates, iter, changes, last, shape,
                   probe, bot, run, ind, bybit, life, fetch, gui>>

\* -------------------------------------------------------------------- RSI
\* calculate_rsi of both engines, on the last bar: gain and loss are the
\* rolling means of the rises and of the falls of the close, never negative.
\* The quotients are float divisions of pandas, which do not raise on a zero
\* divisor: x / 0 is infinite for x > 0 and not a number for x = 0.  The
\* result is kept in whole points, rounded down.
CalculateRsi(gain, loss) ==
    IF loss = 0
    THEN IF gain = 0 THEN NaN ELSE 100
    ELSE (100 * gain) \div (gain + loss)

NoRsi == [gain |-> 0, loss |-> 0, done |-> FALSE, rsi |-> 0]

\* One call of calculate_rsi, read on the last bar
ComputeRsi ==
    /\ ~ind.done
    /\ ind' = [ind EXCEPT !.done = TRUE, !.rsi = CalculateRsi(ind.gain, ind.loss)]
    /\ UNCHANGED <<trades, file, pc, ts, updates, iter, changes, last, shape,
                   probe, bot, run, sr, bybit, life, fetch, gui>>

\* ------------------------------------------------------------------ bybit
\* bybit_signal_bot.py: main reads a batch of channel messages, parses them,
\* stores every new signal under its key in the store file, and hands the
\* new signals to BybitTrader.place_trade.  A run can be interrupted at any
\* point; Path.write_text truncates the file before it writes, so that an
\* interruption inside SignalStore.save leaves a file that does not parse.

\* The messages of the channel: a signal with one target and a stop, a
\* signal with entry 0, and a text that is no signal.
Messages ==
    { [base |-> "STORJ", entry |-> 1, targets |-> 1, stop |-> TRUE],
      [base |-> "ETH", entry |-> 0, targets |-> 1, stop |-> FALSE],
      [base |-> "", entry |-> 0, targets |-> 0, stop |-> FALSE] }

\* The batches fetch_messages returns, of at most MaxBatch messages
Batches == UNION { [1..n -> Messages] : n \in 0..MaxBatch }

\* sym_m.group(1).upper() + "USDT"
Usdt(base) ==
    CASE base = "STORJ" -> "STORJUSDT"
      [] base = "ETH" -> "ETHUSDT"
      [] OTHER -> ""

NoSignal == [symbol |-> "", entry |-> 0, targets |-> 0, stop |-> FALSE]

\* SignalParser.parse: None without a symbol, else the Signal
Parse(msg) ==
    IF msg.base = "" THEN NoSignal
    ELSE [symbol |-> Usdt(msg.base), entry |-> msg.entry,
          targets |-> msg.targets, stop |-> msg.stop]

\* key = f"{signal.symbol}-{signal.entry}"
KeyOf(sig) == <<sig.symbol, sig.entry>>

StoreKeys == { KeyOf(Parse(m)) : m \in { x \in Messages : x.base # "" } }

\* The environment of a run: BYBIT_DRY_RUN, whether BYBIT_API_KEY and
\* BYBIT_API_SECRET are set, and whether pybit could be imported.
Environments ==
    [dry : {"unset", "true", "false", "FALSE"}, key : BOOLEAN,
     secret : BOOLEAN, http : BOOLEAN]

Lower(text) == IF text = "FALSE" THEN "false" ELSE text

\* os.getenv("BYBIT_DRY_RUN", "true").lower() != "false"
DryRunRequested(env) ==
    Lower(IF env.dry = "unset" THEN "true" ELSE env.dry) # "false"

\* A variant of TraderDryRun that does not look at the secret.
TraderDryRunNoSecret(dry_run, env) ==
    dry_run \/ ~(env.key /\ env.http)

\* BybitTrader.__init__: self.dry_run
TraderDryRun(dry_run, env) ==
    dry_run \/ ~(env.key /\ env.secret /\ env.http)

\* BybitTrader.__init__: whether self.client is built
TraderClient(dry_run, env) == ~TraderDryRun(dry_run, env) /\ env.http

\* bybit_signal_gui BybitTrader.place: whether it goes on to the orders
\* instead of returning the dry-run text
GuiPlaceSends(dry_run, env) ==
    ~(TraderDryRun(dry_run, env) \/ ~TraderClient(dry_run, env))

\* The calls place_trade makes on the exchange client when all go through:
\* the entry order, one order per target, and the stop if there is one
Calls(sig) == 1 + sig.targets + (IF sig.stop THEN 1 ELSE 0)

\* The numbers of calls one place_trade can get through
CallCounts == UNION { 1..Calls(Parse(m)) : m \in Messages }

\* The store file: whether its text parses, and the keys it holds
StoreFile(keys) == [ok |-> TRUE, keys |-> keys]

TornFile == [ok |-> FALSE, keys |-> {}]

\* SignalStore._load: {} when the file is missing or does not parse
LoadStore(f) == IF f.ok THEN f.keys ELSE {}

NoEnv == [dry |-> "unset", key |-> FALSE, secret |-> FALSE, http |-> FALSE]

NoBybit ==
    [file |-> StoreFile({}), phase |-> "idle", env |-> NoEnv, data |-> {},
     inbox |-> <<>>, new_signals |-> <<>>, dry_run |-> TRUE, calls |-> 0,
     sent |-> 0, handed |-> [k \in StoreKeys |-> 0]]

Others == <<trades, file, pc, ts, updates, iter, changes, last, shape, probe,
            bot, run, sr, ind, life, fetch, gui>>

\* The process is gone: the store file stays, and the record of what was
\* handed to place_trade so far
Exited(b) == [NoBybit EXCEPT !.file = b.file, !.handed = b.handed]

\* main up to the loop over the messages: the store is loaded, the batch
\* fetched
MainBegin(batch, env) ==
    /\ bybit.phase = "idle"
    /\ bybit' = [bybit EXCEPT !.phase = "read", !.env = env,
                              !.data = LoadStore(bybit.file), !.inbox = batch,
                              !.new_signals = <<>>, !.dry_run = TRUE,
                              !.calls = 0, !.sent = 0]
    /\ UNCHANGED Others

\* SignalStore.is_new
IsNew(data, sig) == KeyOf(sig) \notin data

\* main: one iteration of the loop over the messages; a new signal is added
\* to the store, which is saved, and to new_signals
MainRead ==
    /\ bybit.phase = "read"
    /\ bybit.inbox # <<>>
    /\ LET sig == Parse(Head(bybit.inbox))
       IN  IF sig # NoSignal /\ IsNew(bybit.data, sig)
           THEN bybit' = [bybit EXCEPT !.inbox = Tail(@),
                                       !.data = @ \cup {KeyOf(sig)},
                                       !.file = StoreFile(bybit.data \cup {KeyOf(sig)}),
                                       !.new_signals = Append(@, sig)]
           ELSE bybit' = [bybit EXCEPT !.inbox = Tail(@)]
    /\ UNCHANGED Others

\* main interrupted inside store.add, after write_text truncated the file
MainReadTorn ==
    /\ bybit.phase = "read"
    /\ bybit.inbox # <<>>
    /\ LET sig == Parse(Head(bybit.inbox))
       IN  /\ sig # NoSignal /\ IsNew(bybit.data, sig)
           /\ bybit' = Exited([bybit EXCEPT !.file = TornFile])
    /\ UNCHANGED Others

\* main after the loop: return without new signals, else the trader
MainTrader ==
    /\ bybit.phase = "read"
    /\ bybit.inbox = <<>>
    /\ bybit' = IF bybit.new_signals = <<>>
                THEN Exited(bybit)
                ELSE [bybit EXCEPT !.phase = "place",
                                   !.dry_run = TraderDryRun(DryRunRequested(bybit.env),
                                                            bybit.env)]
    /\ UNCHANGED Others

\* main: trader.place_trade for the next new signal.  size_usdt / sig.entry
\* raises ZeroDivisionError on entry 0, outside the try; in dry-run nothing
\* is sent; else the calls are made until one raises, sent of them.
MainPlace(sent) ==
    /\ bybit.phase = "place"
    /\ bybit.new_signals # <<>>
    /\ LET sig == Head(bybit.new_signals)
           key == KeyOf(sig)
       IN  /\ bybit.handed[key] < MaxPlaced
           /\ sent \in 1..Calls(sig)
           /\ bybit' =
                  IF sig.entry = 0
                  THEN Exited([bybit EXCEPT !.handed[key] = @ + 1])
                  ELSE [bybit EXCEPT
                           !.handed[key] = @ + 1,
                           !.calls = @ + 1,
                           !.new_signals = Tail(@),
                           !.sent = IF bybit.dry_run THEN @ ELSE @ + sent]
    /\ UNCHANGED Others

\* main returns after the last new signal
MainEnd ==
    /\ bybit.phase = "place"
    /\ bybit.new_signals = <<>>
    /\ bybit' = Exited(bybit)
    /\ UNCHANGED Others

\* The run is interrupted between two steps of main
Interrupt ==
    /\ bybit.phase \in {"read", "place"}
    /\ bybit' = Exited(bybit)
    /\ UNCHANGED Others

\* --------------------------------------------------------------- lifetime
\* The messages of a trade over its life: life[i] is the sequence of the
\* kinds of the messages that update_with_analyses appended for trades[i],
\* over all calls on the ledger.
Kinds(msgs) == [k \in 1..Len(msgs) |-> msgs[k].kind]

\* add_trade, with an empty record for a trade it appends
LifeAddTrade(a, created_at) ==
    /\ AddTrade(a, created_at)
    /\ life' = IF Len(trades') > Len(trades) THEN Append(life, <<>>) ELSE life
    /\ UNCHANGED <<shape, probe, sr, bot, run, ind, bybit, fetch, gui>>

\* One loop iteration of update_with_analyses, with the messages it
\* appended recorded for the trade it found
LifeUpdateIter(a) ==
    /\ UpdateIter(a)
    /\ life' = IF last'.idx = 0 THEN life
               ELSE [life EXCEPT ![last'.idx] =
                        @ \o Kinds(SubSeq(updates', Len(updates) + 1, Len(updates')))]
    /\ UNCHANGED <<shape, probe, sr, bot, run, ind, bybit, fetch, gui>>

\* ------------------------------------------------------------ get_klines
\* CryptoSignalBot.get_klines: up to Attempts requests to the exchange, the
\* frame of the first that succeeds, an empty frame when none did; and the
\* analyze_pair that called it.

Attempts == 3

\* How a request ends: with bars, with an HTTP error status, with a
\* connection error or timeout, or with a body that is no list of candles
Outcomes == {"ok", "HTTPError", "ConnectionError", "ValueError"}

\* What the exchange serves for the instrument
FetchMarkets == { m \in ScanMarkets : m.Close = 200 /\ m.EMA200 = 50 }

\* pd.DataFrame()
EmptyFrame == CHOOSE m \in FetchMarkets : m.nbars = 0

NoFetch ==
    [phase |-> "none", symbol |-> "", served |-> EmptyFrame, attempt |-> 0,
     log |-> <<>>, last_err |-> "", frame |-> EmptyFrame, result |-> NotCalled]

\* except requests.HTTPError / except Exception: last_err
LastErr(outcome) == IF outcome = "HTTPError" THEN "HTTP http" ELSE outcome

\* A variant of Fetched that records the frame and goes on with the loop.
FetchedGoesOn(f, m) ==
    [f EXCEPT !.phase = "sleeping", !.frame = m]

\* return df.sort_values("Open Time").reset_index(drop=True)
Fetched(f, m) ==
    [f EXCEPT !.phase = "returned", !.frame = m]

\* The call after the except clause of a failed request
Failed(f, outcome) ==
    [f EXCEPT !.phase = "sleeping", !.last_err = LastErr(outcome)]

FetchFrame == <<trades, file, pc, ts, updates, iter, changes, last, shape,
                probe, bot, run, sr, ind, bybit, life, gui>>

\* for attempt in range(3): the request of the attempt and its handling
Request(outcome) ==
    /\ fetch.phase = "trying"
    /\ fetch.attempt < Attempts
    /\ fetch' = [(IF outcome = "ok" THEN Fetched(fetch, fetch.served)
                  ELSE Failed(fetch, outcome))
                 EXCEPT !.log = Append(@, outcome)]
    /\ UNCHANGED FetchFrame

\* time.sleep(1 + attempt), and the next attempt
Sleep ==
    /\ fetch.phase = "sleeping"
    /\ fetch' = [fetch EXCEPT !.phase = "trying", !.attempt = @ + 1]
    /\ UNCHANGED FetchFrame

\* After the loop: print the error, return pd.DataFrame()
ReturnEmpty ==
    /\ fetch.phase = "trying"
    /\ fetch.attempt >= Attempts
    /\ fetch' = [fetch EXCEPT !.phase = "returned", !.frame = EmptyFrame]
    /\ UNCHANGED FetchFrame

\* analyze_pair on the frame get_klines returned
AnalyzeFetched ==
    /\ fetch.phase = "returned"
    /\ fetch' = [fetch EXCEPT !.phase = "analyzed",
                              !.result = AnalyzePair("crypto", fetch.symbol,
                                                     Interval, fetch.frame)]
    /\ UNCHANGED FetchFrame

\* -------------------------------------------------------------- scanner GUI
\* crypto_signal_gui.SignalGUI and stock_signal_gui.StockSignalGUI: the run
\* button starts bot.run in a background thread, which hands its output to
\* _on_finish through root.after.

NoGui == [button |-> "normal", threads |-> 0, pending |-> FALSE, scans |-> 0,
          finished |-> 0]

GuiFrame == <<trades, file, pc, ts, updates, iter, changes, last, shape,
              probe, run, sr, ind, bybit, life, fetch>>

\* run_scan, the command of the run button, which a disabled button does
\* not invoke: the button is disabled, the thread started; the thread
\* enters bot.run and scan_all_pairs
GuiRunScan ==
    /\ gui.button = "normal"
    /\ gui.scans < MaxScans
    /\ bot.state # "scanning"
    /\ gui' = [gui EXCEPT !.button = "disabled", !.threads = @ + 1,
                          !.scans = @ + 1]
    /\ bot' = [bot EXCEPT !.state = "scanning", !.pos = 0, !.analyses = <<>>,
                          !.signals = <<>>, !.seen = <<>>]
    /\ UNCHANGED GuiFrame

\* The thread in scan_all_pairs: one iteration of the loop.  An exception
\* of analyze_pair leaves bot.run and _run_in_background, and ends the
\* thread before its root.after.
GuiScanStep(m) ==
    /\ gui.threads > 0
    /\ bot.state = "scanning"
    /\ bot.pos < Len(Universe)
    /\ bot' = Scanned(bot, AnalyzePair(bot.engine, Universe[bot.pos + 1], Interval, m))
    /\ gui' = IF bot'.state = "raised" THEN [gui EXCEPT !.threads = @ - 1] ELSE gui
    /\ UNCHANGED GuiFrame

\* The thread returns from bot.run and queues _on_finish: root.after(0, ...)
GuiScanReturn ==
    /\ gui.threads > 0
    /\ bot.state = "scanning"
    /\ bot.pos = Len(Universe)
    /\ bot' = [bot EXCEPT !.state = "returned", !.last_analyses = bot.analyses]
    /\ gui' = [gui EXCEPT !.threads = @ - 1, !.pending = TRUE]
    /\ UNCHANGED GuiFrame

\* _on_finish in the main loop: the button is enabled again
GuiOnFinish ==
    /\ gui.pending
    /\ gui' = [gui EXCEPT !.pending = FALSE, !.button = "normal",
                          !.finished = @ + 1]
    /\ UNCHANGED <<bot, trades, file, pc, ts, updates, iter, changes, last,
                   shape, probe, run, sr, ind, bybit, life, fetch>>

Init ==
    /\ trades = <<>>
    /\ file = Missing
    /\ pc = "idle"
    /\ ts = 0
    /\ updates = <<>>
    /\ iter = 0
    /\ changes = 0
    /\ last = Step("init", NoAnalysis, 0, "none")
    /\ shape = "list"
    /\ probe = NoProbe
    /\ bot = BotNew("")
    /\ run = NoRun
    /\ sr = NoPivot
    /\ ind = NoRsi
    /\ bybit = NoBybit
    /\ life = <<>>
    /\ fetch = NoFetch
    /\ gui = NoGui

Next ==
    \/ \E a \in Analyses, t \in Timestamps : AddTrade(a, t) /\ UNCHANGED outside
    \/ \E t \in Timestamps : UpdateBegin(t) /\ UNCHANGED outside
    \/ \E a \in Analyses : UpdateIter(a) /\ UNCHANGED outside
    \/ UpdateReturn /\ UNCHANGED outside

Spec == Init /\ [][Next]_vars

\* The life of one tracker, its save(), and the construction of the next
\* tracker on the same path.
NextPersist ==
    \/ Next
    \/ Save /\ UNCHANGED outside
    \/ Load /\ UNCHANGED <<probe, sr, bot, run, ind, bybit, life, fetch, gui>>

SpecPersist == Init /\ [][NextPersist]_vars

\* The files a tracker can find at its path: none, text that is no JSON,
\* the JSON object {}, the empty array, and a ledger of one open trade.
FilesAtStart ==
    { Missing, Unparseable, EmptyObject, Written(Dumps(<<>>)),
      Written(Dumps(<<NewTrade(Analysis(<<"BTCUSDT", "1d">>, 2,
                                        [entry |-> 2, stop_loss |-> 1, tp1 |-> 3, tp2 |-> 4]),
                               1)>>)) }

InitLoad ==
    /\ trades = <<>>
    /\ file \in FilesAtStart
    /\ pc = "new"
    /\ ts = 0
    /\ updates = <<>>
    /\ iter = 0
    /\ changes = 0
    /\ last = Step("init", NoAnalysis, 0, "none")
    /\ shape = "list"
    /\ probe = NoProbe
    /\ bot = BotNew("")
    /\ run = NoRun
    /\ sr = NoPivot
    /\ ind = NoRsi
    /\ bybit = NoBybit
    /\ life = <<>>
    /\ fetch = NoFetch
    /\ gui = NoGui

\* The construction of a tracker on the path and the calls made on it up
\* to the first trade it adds.
NextLoad ==
    \/ Load /\ UNCHANGED <<probe, sr, bot, run, ind, bybit, life, fetch, gui>>
    \/ \E a \in Analyses, t \in Timestamps :
          Len(trades) = 0 /\ AddTrade(a, t) /\ UNCHANGED outside
    \/ \E a \in Analyses, t \in Timestamps : AddTradeOnDict(a, t) /\ UNCHANGED outside
    \/ \E t \in Timestamps : UpdateBegin(t) /\ UNCHANGED outside
    \/ \E a \in Analyses : UpdateIter(a) /\ UNCHANGED outside
    \/ UpdateReturn /\ UNCHANGED outside

SpecLoad == InitLoad /\ [][NextLoad]_vars

\* analyze_pair as a function of the engine and of the series it fetches
InitAnalyze ==
    /\ trades = <<>>
    /\ file = Missing
    /\ pc = "idle"
    /\ ts = 0
    /\ updates = <<>>
    /\ iter = 0
    /\ changes = 0
    /\ last = Step("init", NoAnalysis, 0, "none")
    /\ shape = "list"
    /\ probe \in [engine : Engines, market : Markets, result : {NotCalled}]
    /\ bot = BotNew("")
    /\ run = NoRun
    /\ sr = NoPivot
    /\ ind = NoRsi
    /\ bybit = NoBybit
    /\ life = <<>>
    /\ fetch = NoFetch
    /\ gui = NoGui

NextAnalyze == Analyze

SpecAnalyze == InitAnalyze /\ [][NextAnalyze]_vars

\* Runs of run_signals_only with one engine on its ledger file, one after
\* the other, the first one without a file.
InitRun ==
    /\ trades = <<>>
    /\ file = Missing
    /\ pc = "new"
    /\ ts = 0
    /\ updates = <<>>
    /\ iter = 0
    /\ changes = 0
    /\ last = Step("init", NoAnalysis, 0, "none")
    /\ shape = "list"
    /\ probe = NoProbe
    /\ bot \in { BotNew(e) : e \in Engines }
    /\ run = [NoRun EXCEPT !.phase = "start"]
    /\ sr = NoPivot
    /\ ind = NoRsi
    /\ bybit = NoBybit
    /\ life = <<>>
    /\ fetch = NoFetch
    /\ gui = NoGui

NextRun ==
    \/ \E now \in Timestamps : RunBegin(now)
    \/ ScanBegin
    \/ \E m \in ScanMarkets : ScanStep(m)
    \/ ScanReturn
    \/ RunUpdateBegin
    \/ RunUpdateIter
    \/ RunUpdateReturn
    \/ RunAddTrade
    \/ RunSave
    \/ RunExit

SpecRun == InitRun /\ [][NextRun]_vars

\* find_support_resistance as a function of the series and the window
InitPivot ==
    /\ trades = <<>>
    /\ file = Missing
    /\ pc = "idle"
    /\ ts = 0
    /\ updates = <<>>
    /\ iter = 0
    /\ changes = 0
    /\ last = Step("init", NoAnalysis, 0, "none")
    /\ shape = "list"
    /\ probe = NoProbe
    /\ bot = BotNew("")
    /\ run = NoRun
    /\ sr \in [df : SeriesSet, window : Windows, result : {NoLevels}]
    /\ ind = NoRsi
    /\ bybit = NoBybit
    /\ life = <<>>
    /\ fetch = NoFetch
    /\ gui = NoGui

NextPivot == FindLevels

SpecPivot == InitPivot /\ [][NextPivot]_vars

\* calculate_rsi as a function of the average gain and the average loss
InitRsi ==
    /\ trades = <<>>
    /\ file = Missing
    /\ pc = "idle"
    /\ ts = 0
    /\ updates = <<>>
    /\ iter = 0
    /\ changes = 0
    /\ last = Step("init", NoAnalysis, 0, "none")
    /\ shape = "list"
    /\ probe = NoProbe
    /\ bot = BotNew("")
    /\ run = NoRun
    /\ sr = NoPivot
    /\ ind \in [gain : 0..MaxGain, loss : 0..MaxGain, done : {FALSE}, rsi : {0}]
    /\ bybit = NoBybit
    /\ life = <<>>
    /\ fetch = NoFetch
    /\ gui = NoGui

NextRsi == ComputeRsi

SpecRsi == InitRsi /\ [][NextRsi]_vars

\* Runs of bybit_signal_bot.main on one store file, one after the other
InitBybit ==
    /\ trades = <<>>
    /\ file = Missing
    /\ pc = "idle"
    /\ ts = 0
    /\ updates = <<>>
    /\ iter = 0
    /\ changes = 0
    /\ last = Step("init", NoAnalysis, 0, "none")
    /\ shape = "list"
    /\ probe = NoProbe
    /\ bot = BotNew("")
    /\ run = NoRun
    /\ sr = NoPivot
    /\ ind = NoRsi
    /\ bybit = NoBybit
    /\ life = <<>>
    /\ fetch = NoFetch
    /\ gui = NoGui

NextBybit ==
    \/ \E batch \in Batches, env \in Environments : MainBegin(batch, env)
    \/ MainRead
    \/ MainReadTorn
    \/ MainTrader
    \/ \E sent \in CallCounts : MainPlace(sent)
    \/ MainEnd
    \/ Interrupt

SpecBybit == InitBybit /\ [][NextBybit]_vars

\* The life of one tracker, with the messages of every trade recorded
NextLifetime ==
    \/ \E a \in Analyses, t \in Timestamps : LifeAddTrade(a, t)
    \/ \E t \in Timestamps : UpdateBegin(t) /\ UNCHANGED outside
    \/ \E a \in Analyses : LifeUpdateIter(a)
    \/ UpdateReturn /\ UNCHANGED outside

SpecLifetime == Init /\ [][NextLifetime]_vars

\* One call of analyze_pair of the crypto engine, from its get_klines on
InitFetch ==
    /\ trades = <<>>
    /\ file = Missing
    /\ pc = "idle"
    /\ ts = 0
    /\ updates = <<>>
    /\ iter = 0
    /\ changes = 0
    /\ last = Step("init", NoAnalysis, 0, "none")
    /\ shape = "list"
    /\ probe = NoProbe
    /\ bot = BotNew("")
    /\ run = NoRun
    /\ sr = NoPivot
    /\ ind = NoRsi
    /\ bybit = NoBybit
    /\ life = <<>>
    /\ fetch \in { [NoFetch EXCEPT !.phase = "trying", !.symbol = s, !.served = m] :
                     s \in { Universe[k] : k \in 1..Len(Universe) },
                     m \in FetchMarkets }
    /\ gui = NoGui

NextFetch ==
    \/ \E outcome \in Outcomes : Request(outcome)
    \/ Sleep
    \/ ReturnEmpty
    \/ AnalyzeFetched

SpecFetch == InitFetch /\ [][NextFetch]_vars

\* A scanner GUI of either engine, over up to MaxScans presses of the button
InitGui ==
    /\ trades = <<>>
    /\ file = Missing
    /\ pc = "idle"
    /\ ts = 0
    /\ updates = <<>>
    /\ iter = 0
    /\ changes = 0
    /\ last = Step("init", NoAnalysis, 0, "none")
    /\ shape = "list"
    /\ probe = NoProbe
    /\ bot \in { BotNew(e) : e \in Engines }
    /\ run = NoRun
    /\ sr = NoPivot
    /\ ind = NoRsi
    /\ bybit = NoBybit
    /\ life = <<>>
    /\ fetch = NoFetch
    /\ gui = NoGui

NextGui ==
    \/ GuiRunScan
    \/ \E m \in FetchMarkets : GuiScanStep(m)
    \/ GuiScanReturn
    \/ GuiOnFinish

SpecGui == InitGui /\ [][NextGui]_vars

\* A started thread runs on, and the main loop runs the callbacks queued
\* with root.after; nobody has to press the button.
SpecGuiFair ==
    /\ SpecGui
    /\ WF_vars(\E m \in FetchMarkets : GuiScanStep(m))
    /\ WF_vars(GuiScanReturn)
    /\ WF_vars(GuiOnFinish)

\* Every request ends (timeout=10), every sleep ends, and the caller goes on
SpecFetchFair == SpecFetch /\ WF_vars(NextFetch)

\* ------------------------------------------------------- claim vocabulary
SameKey(t, a) == t.symbol = a.symbol /\ t.timeframe = a.timeframe

Active(t) == t.status \in ActiveStatus

Terminal(t) == t.status \in TerminalStatus

\* A step that is one loop iteration of update_with_analyses; last' holds
\* the analysis it read.
IterStep == pc = "update" /\ iter' = iter + 1

\* A step that is a call of add_trade; last' holds its analysis.
AddStep == pc = "idle" /\ last'.op = "add_trade"

\* The trades of the ledger that are active and have the key of analysis a.
ActiveFor(ledger, a) ==
    { i \in 1..Len(ledger) : Active(ledger[i]) /\ SameKey(ledger[i], a) }

\* C1: for every (symbol, timeframe) key, at most one trade of the ledger
\* has status open or tp1.
C1_OneActivePerKey ==
    \A i, j \in 1..Len(trades) :
        (Active(trades[i]) /\ Active(trades[j]) /\ SameKey(trades[i], trades[j]))
            => i = j

\* C1 witness: the key of a trade that ended has a second, active trade.
C1_Witness ==
    \E i, j \in 1..Len(trades) :
        /\ i < j
        /\ SameKey(trades[i], trades[j])
        /\ Terminal(trades[i])
        /\ trades[j].status = "tp1"

\* C2: once a trade's status is tp2 or stopped, no step changes it.
C2_TerminalIsFinal ==
    [][\A i \in 1..Len(trades) :
          Terminal(trades[i]) =>
              /\ i <= Len(trades')
              /\ trades'[i].status = trades[i].status]_vars

\* C2 witness: a loop iteration has just read an analysis for the key of a
\* trade that is stopped, at a price at or above that trade's tp2.
C2_Witness ==
    /\ last.op = "iter"
    /\ \E i \in 1..Len(trades) :
          /\ trades[i].status = "stopped"
          /\ SameKey(trades[i], last.a)
          /\ last.a.price >= trades[i].tp2
          /\ trades[i].stop_loss < trades[i].tp2

\* C3 (as claimed): a loop iteration that reads an analysis for the key of a
\* trade that is tp2 or stopped sets that trade's last_price to the price
\* read and its pnl_pct to (price / entry - 1) * 100.
C3_TerminalStillPriced ==
    [][IterStep =>
          \A i \in 1..Len(trades) :
              (Terminal(trades[i]) /\ SameKey(trades[i], last'.a)) =>
                  /\ trades'[i].last_price = last'.a.price
                  /\ trades'[i].pnl_pct = PnlPct(last'.a.price, trades[i].entry)]_vars

\* C4: a loop iteration that reads, for the key of a trade that is open or
\* tp1, a price at or below the trade's stop_loss leaves the trade stopped,
\* whatever the price is to tp1 and tp2.
C4_StopFirst ==
    [][IterStep =>
          \A i \in 1..Len(trades) :
              (Active(trades[i]) /\ SameKey(trades[i], last'.a)
                 /\ last'.a.price <= trades[i].stop_loss)
                  => trades'[i].status = "stopped"]_vars

\* C4 witness: one trade was stopped at a price that also reached its tp2,
\* and the last iteration stopped another trade from tp1.
C4_Witness ==
    /\ last.op = "iter"
    /\ last.idx # 0
    /\ last.from = "tp1"
    /\ trades[last.idx].status = "stopped"
    /\ \E i \in 1..Len(trades) :
          /\ trades[i].status = "stopped"
          /\ trades[i].last_price <= trades[i].stop_loss
          /\ trades[i].last_price >= trades[i].tp2

\* The status changes the claim allows.
AllowedChanges ==
    { <<"open", "tp1">>, <<"open", "tp2">>, <<"open", "stopped">>,
      <<"tp1", "tp2">>, <<"tp1", "stopped">> }

\* C5: a trade's status only changes open->tp1, open->tp2, open->stopped,
\* tp1->tp2 or tp1->stopped; and an iteration that reads, for the key of an
\* active trade, a price above its stop_loss gives tp2 if price >= tp2, tp1
\* if price >= tp1 and the trade is open, and no change otherwise.
C5_Transitions ==
    [][/\ \A i \in 1..Len(trades) :
            /\ i <= Len(trades')
            /\ \/ trades'[i].status = trades[i].status
               \/ <<trades[i].status, trades'[i].status>> \in AllowedChanges
       /\ IterStep =>
            \A i \in 1..Len(trades) :
                (Active(trades[i]) /\ SameKey(trades[i], last'.a)
                   /\ last'.a.price > trades[i].stop_loss)
                    => trades'[i].status =
                          IF last'.a.price >= trades[i].tp2 THEN "tp2"
                          ELSE IF last'.a.price >= trades[i].tp1
                                  /\ trades[i].status = "open" THEN "tp1"
                          ELSE trades[i].status]_vars

\* C5 witness: the last iteration took a trade from open straight to tp2,
\* and another trade of the ledger is tp1 with its last price at or above tp1.
C5_Witness ==
    /\ last.op = "iter"
    /\ last.idx # 0
    /\ last.from = "open"
    /\ trades[last.idx].status = "tp2"
    /\ \E i \in 1..Len(trades) :
          /\ trades[i].status = "tp1"
          /\ trades[i].last_update > trades[i].created_at

\* C6: add_trade for a key that has an open or tp1 trade leaves the ledger
\* as it is, and after any add_trade the key has exactly one active trade.
C6_AddIdempotent ==
    [][AddStep =>
          /\ ActiveFor(trades, last'.a) # {} => trades' = trades
          /\ Cardinality(ActiveFor(trades', last'.a)) = 1]_vars

\* C6 witness: add_trade has just been called for the key of a tp1 trade,
\* and that trade is the only one of its key.
C6_Witness ==
    /\ last.op = "add_trade"
    /\ \E i \in 1..Len(trades) :
          /\ SameKey(trades[i], last.a)
          /\ trades[i].status = "tp1"
          /\ \A j \in 1..Len(trades) : SameKey(trades[j], last.a) => j = i

\* What C7 says of every field but last_price: add_trade for a key without
\* an active trade appends one trade, open, with the analysis's levels,
\* pnl_pct 0 and both timestamps the one given.
AppendsOpenTrade ==
    /\ Len(trades') = Len(trades) + 1
    /\ \A i \in 1..Len(trades) : trades'[i] = trades[i]
    /\ LET new == trades'[Len(trades')]
       IN  /\ new.symbol = last'.a.symbol
           /\ new.timeframe = last'.a.timeframe
           /\ new.status = "open"
           /\ new.entry = last'.a.entry
           /\ new.stop_loss = last'.a.stop_loss
           /\ new.tp1 = last'.a.tp1
           /\ new.tp2 = last'.a.tp2
           /\ new.pnl_pct = ZeroPnl
           /\ new.created_at = ts'
           /\ new.last_update = ts'

C8_ChangeIffMessage ==
    /\ [][IterStep =>
            /\ \A i \in 1..Len(trades) :
                  IF trades'[i].status # trades[i].status
                  THEN /\ trades'[i].last_update = ts
                       /\ Len(updates') = Len(updates) + 1
                       /\ SubSeq(updates', 1, Len(updates)) = updates
                  ELSE trades'[i].last_update = trades[i].last_update
            /\ (\A i \in 1..Len(trades) : trades'[i].status = trades[i].status)
                  => updates' = updates]_vars
    /\ [](Len(updates) = changes)

\* C8 witness: a call has returned two messages, and a trade it moved has
\* a last_update later than its created_at.
C8_Witness ==
    /\ last.op = "return"
    /\ Len(updates) = 2
    /\ \E i \in 1..Len(trades) :
          /\ trades[i].last_update = ts
          /\ trades[i].created_at < ts

\* What a trade is, as opposed to how it stands.
Identity(t) ==
    <<t.symbol, t.timeframe, t.entry, t.stop_loss, t.tp1, t.tp2, t.created_at>>

\* C9: no step shortens the ledger or moves a trade; the ledger grows by
\* one trade at a time, at its end, in add_trade, and only when every
\* earlier trade of the key is tp2 or stopped.
C9_AppendOnly ==
    [][/\ Len(trades') >= Len(trades)
       /\ \A i \in 1..Len(trades) : Identity(trades'[i]) = Identity(trades[i])
       /\ Len(trades') > Len(trades) =>
            /\ Len(trades') = Len(trades) + 1
            /\ AddStep
            /\ SameKey(trades'[Len(trades')], last'.a)
            /\ \A i \in 1..Len(trades) :
                  SameKey(trades[i], last'.a) => Terminal(trades[i])]_vars

\* C9 witness: the ledger holds two trades of one key, the earlier one
\* stopped, the later one appended by the add_trade just made.
C9_Witness ==
    /\ last.op = "add_trade"
    /\ Len(trades) = 2
    /\ SameKey(trades[1], trades[2])
    /\ trades[1].status = "stopped"
    /\ trades[2].status = "open"
    /\ trades[2].created_at > trades[1].created_at

C11_BadFileEmptyLedger ==
    (pc # "new" /\ (~file.exists \/ file.kind # "array")) =>
        /\ pc # "raised"
        /\ last.op = "load" => Len(trades) = 0

\* The analysis a finished call of analyze_pair returned, if it returned one
Analysed == probe.result.outcome = "analysis"

Result == probe.result.analysis

\* C13 (as claimed): on a fetched series of fewer than 30 bars, empty or
\* not, analyze_pair of either engine returns None.
C13_ShortSeriesNoAnalysis ==
    (probe.result # NotCalled /\ probe.market.nbars < MinBars) =>
        probe.result.outcome = "none"

\* C14: every analysis analyze_pair returns has should_alert true exactly
\* when confidence >= 70, ratio_tp1 >= 1.0 and in_uptrend.
C14_AlertIffTriad ==
    Analysed =>
        (Result.should_alert <=>
            (Result.confidence >= 70 /\ AtLeastOne(Result.ratio_tp1) /\ Result.in_uptrend))

\* An analysis that alerts, and whose score and ratio would also pass
\* with fields that do not enter the decision at their other values.
C14_Witness ==
    /\ Analysed
    /\ Result.should_alert
    /\ Result.confidence = 70
    /\ ~Result.ema_order

\* C15: every analysis has stop_loss < entry and tp1 < tp2, whether the
\* ATR is positive, zero or not a number.
C15_StopBelowEntryTargetsOrdered ==
    Analysed => (Result.stop_loss < Result.entry /\ Result.tp1 < Result.tp2)

\* An analysis without ATR whose stop fell back to entry * 0.98 because the
\* support lies above the entry, and whose targets come from the resistance.
C15_Witness ==
    /\ Analysed
    /\ Result.atr = NaN
    /\ Result.support > Result.entry
    /\ Result.stop_loss * 100 = Result.entry * 98
    /\ Result.tp2 = Result.resistance

\* The score as the table of weights gives it for the conditions the
\* returned analysis reports.
TableScore(a) ==
    (IF a.in_uptrend THEN 20 ELSE 0)
    + (IF a.ema_order THEN 15 ELSE 0)
    + (IF a.macd_positive THEN 15 ELSE 0)
    + (IF a.macd_crossover THEN 10 ELSE 0)
    + (IF a.rsi # NaN /\ 30 < a.rsi /\ a.rsi < 80 THEN 10 ELSE 0)
    + (IF a.rsi_gaining THEN 10 ELSE 0)
    + (IF a.testing_support THEN 10 ELSE 0)
    + (IF a.volume_increase > 30 THEN 5 ELSE 0)
    + (IF a.volume_increase < -30 THEN -5 ELSE 0)
    + (IF a.adx # NaN /\ a.adx >= 25 THEN 10 ELSE 0)
    + (IF a.adx # NaN /\ a.adx < 15 THEN -5 ELSE 0)
    + (IF a.ratio_tp1[1] >= a.ratio_tp1[2] THEN 5 ELSE 0)

AllPositive(a) ==
    /\ a.in_uptrend /\ a.ema_order /\ a.macd_positive /\ a.macd_crossover
    /\ a.rsi # NaN /\ 30 < a.rsi /\ a.rsi < 80
    /\ a.rsi_gaining /\ a.testing_support
    /\ a.volume_increase > 30
    /\ a.adx # NaN /\ a.adx >= 25
    /\ a.ratio_tp1[1] >= a.ratio_tp1[2]

\* C18: confidence is the signed sum of the weights of the conditions that
\* hold, not clamped; with every positive condition it is 110, the strength
\* is FORTE and should_alert is true.
C18_ConfidenceIsWeightSum ==
    Analysed =>
        /\ Result.confidence = TableScore(Result)
        /\ AllPositive(Result) =>
              /\ Result.confidence = 110
              /\ Result.signal_strength = "FORTE"
              /\ Result.should_alert

\* An analysis with every positive condition: volume +40%, ADX 30.
C18_Witness ==
    /\ Analysed
    /\ AllPositive(Result)
    /\ Result.volume_increase = 40
    /\ Result.adx = 30
    /\ Result.confidence = 110

\* C19: signal_strength is FORTE exactly from 75, MODERADO exactly from 60
\* to below 75 and FRACO exactly below 60, and should_alert is decided by
\* the score, the ratio and the trend whatever the label.
C19_StrengthThresholds ==
    Analysed =>
        /\ Result.signal_strength = "FORTE" <=> Result.confidence >= 75
        /\ Result.signal_strength = "MODERADO" <=>
              (60 <= Result.confidence /\ Result.confidence < 75)
        /\ Result.signal_strength = "FRACO" <=> Result.confidence < 60
        /\ (Result.confidence >= 70 /\ AtLeastOne(Result.ratio_tp1) /\ Result.in_uptrend)
              => Result.should_alert

\* An analysis that alerts with a score between 70 and 74, labelled MODERADO.
C19_Witness ==
    /\ Analysed
    /\ Result.confidence \in 70..74
    /\ Result.signal_strength = "MODERADO"
    /\ Result.should_alert

\* C12 (as claimed): no failure on one instrument ends the scan; after an
\* instrument is dealt with, the scan is still going on or has returned.
C12_ScanNeverAborts ==
    bot.seen # <<>> => bot.state \in {"scanning", "returned"}

\* C16: every trade of the ledger has stop_loss < entry < tp1 < tp2.
C16_LedgerLevelsOrdered ==
    \A i \in 1..Len(trades) :
        /\ trades[i].stop_loss < trades[i].entry
        /\ trades[i].entry < trades[i].tp1
        /\ trades[i].tp1 < trades[i].tp2

\* A ledger, loaded again by a later run, with a trade whose targets were
\* derived from the resistance: tp1 is 0.98 of tp2.
C16_Witness ==
    /\ run.phase = "add"
    /\ file.exists
    /\ \E i \in 1..Len(trades) :
          /\ trades[i].tp1 * 100 = trades[i].tp2 * 98
          /\ trades[i].status # "open"

Succeeded(r) == r.outcome = "analysis"

\* The analyses of the instruments analyze_pair succeeded on, in scan order
Successes ==
    LET ok == SelectSeq(bot.seen, Succeeded)
    IN  [i \in 1..Len(ok) |-> ok[i].analysis]

\* C17: when scan_all_pairs has returned, last_analyses holds, in scan
\* order, the analysis of each instrument that was analysed and nothing
\* for the others, and the signals are those of last_analyses that alert,
\* in the same order.
C17_SignalsAreAlertingAnalyses ==
    bot.state = "returned" =>
        /\ Len(bot.seen) = Len(Universe)
        /\ bot.last_analyses = Successes
        /\ \A i \in 1..Len(bot.seen) :
              Succeeded(bot.seen[i]) => bot.seen[i].analysis.symbol = Universe[i]
        /\ bot.signals = SelectSeq(bot.last_analyses, Alerts)

\* A scan that returned with one instrument skipped and one analysed, the
\* analysis scoring 70 or more without alerting.
C17_Witness ==
    /\ bot.state = "returned"
    /\ Len(bot.last_analyses) = 1
    /\ bot.last_analyses[1].symbol = Universe[2]
    /\ bot.last_analyses[1].confidence >= 70
    /\ bot.signals = <<>>

\* C20 (as claimed): the support returned is the greatest pivot low of the
\* trailing window or, without a pivot low, the least low of that window;
\* the resistance is the least pivot high of the window or, without a
\* pivot high, the greatest high of that window.
C20_FallbackWithinWindow ==
    sr.result # NoLevels =>
        LET recent == TailOf(sr.df, sr.window)
        IN  /\ sr.result.support =
                  IF PivotLows(recent) # {} THEN MaxOf(PivotLows(recent))
                  ELSE MinOf(LowsOf(recent))
            /\ sr.result.resistance =
                  IF PivotHighs(recent) # {} THEN MinOf(PivotHighs(recent))
                  ELSE MaxOf(HighsOf(recent))

\* C21 (as claimed): when the average loss is 0 the RSI is a number, so that
\* rsi_healthy, rsi_oversold and rsi_gaining compare numbers.
C21_RsiDefinedOnZeroLoss ==
    (ind.done /\ ind.loss = 0) => ind.rsi # NaN

\* C22: a loop iteration of update_with_analyses that finds an active trade
\* for the key of its analysis leaves the trade with last_price at the price
\* of the analysis and pnl_pct at (price / entry - 1) * 100, whether or not
\* the status changed.
C22_PricedOnEveryUpdate ==
    (last.op = "iter" /\ last.idx # 0) =>
        /\ trades[last.idx].last_price = last.a.price
        /\ trades[last.idx].pnl_pct = PnlPct(last.a.price, trades[last.idx].entry)

\* An iteration that stopped an open trade at a price below its stop level:
\* the stored pnl_pct is that of the price, not that of the level.
C22_Witness ==
    /\ last.op = "iter"
    /\ last.idx # 0
    /\ last.from = "open"
    /\ trades[last.idx].status = "stopped"
    /\ last.a.price < trades[last.idx].stop_loss
    /\ trades[last.idx].pnl_pct # PnlPct(trades[last.idx].stop_loss, trades[last.idx].entry)

\* C23: a run in which dry-run is requested, or the API key or secret is
\* missing, or pybit is unavailable makes no call on the exchange; a run
\* with BYBIT_DRY_RUN unset makes none.
C23_NoOrderInDryRun ==
    /\ (DryRunRequested(bybit.env) \/ ~bybit.env.key \/ ~bybit.env.secret
            \/ ~bybit.env.http) => bybit.sent = 0
    /\ bybit.env.dry = "unset" => bybit.sent = 0
    /\ \A dry_run \in BOOLEAN, env \in Environments :
           GuiPlaceSends(dry_run, env) =>
               ~dry_run /\ env.key /\ env.secret /\ env.http

\* A run with key, secret and pybit present and BYBIT_DRY_RUN unset that
\* handed a signal to place_trade, and sent nothing.
C23_Witness ==
    /\ bybit.env = [dry |-> "unset", key |-> TRUE, secret |-> TRUE, http |-> TRUE]
    /\ bybit.calls > 0
    /\ bybit.sent = 0

\* C29 (as claimed): over all runs on one store file, also interrupted
\* ones, no signal key is handed to place_trade more than once.
C29_PlacedAtMostOnce ==
    \A k \in StoreKeys : bybit.handed[k] <= 1
\* C24: a run of run_signals_only leaves the ledger file as it found it
\* until update_with_analyses and every add_trade have returned, also when
\* the scan raises; it then saves once, and the file holds the ledger as
\* the run left it.
C24_SavedOnceAtTheEnd ==
    /\ run.phase \in {"scan", "update", "updating", "add", "raised"} =>
           run.saves = 0 /\ file = run.file0
    /\ run.phase = "done" =>
           /\ run.saves = 1
           /\ run.queue = <<>>
           /\ pc = "saved"
           /\ file.exists /\ file.kind = "array" /\ file.text = Dumps(trades)

\* A run that found a ledger file, changed a trade, added one, and saved.
C24_Witness ==
    /\ run.phase = "done"
    /\ run.file0.exists
    /\ file # run.file0
    /\ \E i \in 1..Len(trades) :
           /\ trades[i].created_at < run.now
           /\ trades[i].last_update = run.now
           /\ trades[i].status # "open"
    /\ \E i \in 1..Len(trades) : trades[i].created_at = run.now

\* The trades of the ledger that the run in progress created
CreatedInRun == { i \in 1..Len(trades) : trades[i].created_at = run.now }

\* The trades of the ledger that the run in progress found active and
\* brought to tp2 or stopped
EndedInRun ==
    { i \in 1..Len(trades) :
        /\ trades[i].created_at < run.now
        /\ trades[i].last_update = run.now
        /\ trades[i].status \in TerminalStatus }

AlertsFor(t) ==
    \E k \in 1..Len(bot.last_analyses) :
        /\ bot.last_analyses[k].symbol = t.symbol
        /\ bot.last_analyses[k].timeframe = t.timeframe
        /\ bot.last_analyses[k].should_alert

\* C25: in a run of run_signals_only, a trade the run created is open and
\* as add_trade wrote it, and no message of the run's update is about a
\* key that had no trade before; when the run has saved, every key whose
\* trade the run brought to tp2 or stopped and whose analysis alerts has a
\* fresh open trade created by the run.
C25_UpdateBeforeAdd ==
    run.phase \in {"scan", "update", "updating", "add", "done", "raised"} =>
        /\ \A i \in CreatedInRun :
               /\ trades[i].status = "open"
               /\ trades[i].last_update = trades[i].created_at
               /\ trades[i].pnl_pct = ZeroPnl
        /\ run.phase \in {"scan", "update", "updating"} => CreatedInRun = {}
        /\ run.phase = "done" =>
               \A i \in EndedInRun :
                   AlertsFor(trades[i]) =>
                       \E j \in CreatedInRun :
                           /\ trades[j].symbol = trades[i].symbol
                           /\ trades[j].timeframe = trades[i].timeframe

\* A saved run that stopped a trade or brought it to tp2 and opened a fresh
\* one for the same key.
C25_Witness ==
    /\ run.phase = "done"
    /\ \E i \in EndedInRun :
           /\ AlertsFor(trades[i])
           /\ \E j \in CreatedInRun :
                  /\ trades[j].symbol = trades[i].symbol
                  /\ trades[j].timeframe = trades[i].timeframe


\* The message sequences a trade can have caused
Lifetimes ==
    { <<>>, <<"TP1">>, <<"TP2">>, <<"STOP">>, <<"TP1", "TP2">>,
      <<"TP1", "STOP">> }

\* C26: over all calls on a ledger, the messages of one trade are none,
\* TP1, TP2, STOP, TP1 then TP2, or TP1 then STOP: at most two, no kind
\* twice, none after TP2 or STOP.
C26_MessagesOfATrade ==
    /\ Len(life) = Len(trades)
    /\ \A i \in 1..Len(life) : life[i] \in Lifetimes

\* A trade that caused TP1 and, in a later call, STOP.
C26_Witness ==
    \E i \in 1..Len(life) :
        /\ life[i] = <<"TP1", "STOP">>

\* C27: a loop iteration of update_with_analyses leaves the length of the
\* ledger and the symbol, timeframe, entry, stop_loss, tp1, tp2 and
\* created_at of every trade as they were, leaves every trade of another
\* key than the analysis as it was, and leaves the whole ledger as it was
\* when no trade of the analysis's key is active; entering and leaving the
\* call changes no trade.
C27_UpdateFrame ==
    [][/\ IterStep =>
            /\ Len(trades') = Len(trades)
            /\ \A i \in 1..Len(trades) :
                   /\ Identity(trades'[i]) = Identity(trades[i])
                   /\ ~SameKey(trades[i], last'.a) => trades'[i] = trades[i]
            /\ ActiveFor(trades, last'.a) = {} => trades' = trades
       /\ ((pc = "update" \/ pc' = "update") /\ ~IterStep) => trades' = trades]_vars

\* An iteration that changed the status of a trade in a ledger that also
\* holds a trade of another key.
C27_Witness ==
    /\ last.op = "iter"
    /\ last.idx # 0
    /\ trades[last.idx].status # last.from
    /\ \E j \in 1..Len(trades) : ~SameKey(trades[j], last.a)


\* The requests of the call that failed
Failures == { k \in 1..Len(fetch.log) : fetch.log[k] # "ok" }

\* C28: get_klines makes at most 3 requests and none after one that
\* succeeded; it returns what the successful request served, or, after 3
\* failures, an empty frame, for which analyze_pair returns None; and every
\* call comes to its return.
C28_FetchSafe ==
    /\ Len(fetch.log) <= 3
    /\ \A k \in 1..Len(fetch.log) : fetch.log[k] = "ok" => k = Len(fetch.log)
    /\ fetch.phase \in {"returned", "analyzed"} =>
          \/ /\ fetch.log # <<>>
             /\ fetch.log[Len(fetch.log)] = "ok"
             /\ fetch.frame = fetch.served
          \/ /\ Len(fetch.log) = 3
             /\ Failures = 1..3
             /\ fetch.frame = EmptyFrame
             /\ fetch.phase = "analyzed" => fetch.result = ReturnsNone

C28_FetchTerminates ==
    []C28_FetchSafe /\ <>(fetch.phase = "analyzed")

\* A call that failed three times over an exchange that had the bars, and
\* was analyzed.
C28_Witness ==
    /\ fetch.phase = "analyzed"
    /\ Len(fetch.log) = 3
    /\ Failures = 1..3
    /\ fetch.served.nbars = MinBars
    /\ fetch.result = ReturnsNone


\* C30 (as claimed): after every started scan the run button is enabled
\* again, also when bot.run raises in the background thread.
C30_ButtonEnabledAgain ==
    (gui.button = "disabled") ~> (gui.button = "normal")
====
